---- MODULE Spec2Model ----
(***************************************************************************)
(* Model of sidecar.py: the ECS load-balancer sidecar.  The program is one *)
(* sequential process: sideCarApp.__init__ (configuration, metadata,       *)
(* service lookup, baseline health checks), then sideCarApp.run (the       *)
(* monitoring loop), drain and shutdown.  One action per blocking step of  *)
(* that process, plus the delivery of SIGTERM once the daemon context has  *)
(* installed the handler.                                                  *)
(***************************************************************************)
EXTENDS Integers, Sequences, FiniteSets, TLC

(* ---------------------------- bounds ---------------------------------- *)
MaxLen == 3          \* longest DEREGISTRATION_WAIT string drawn
MaxLBs == 2          \* longest loadBalancers list drawn
MaxCycles == 3       \* monitoring cycles explored
MaxQueries == 12     \* remote describe_target_health calls explored

(* ------------------------ program constants --------------------------- *)
TRIES == 10          \* AWSRetry.backoff(tries=10, ...)
DefaultWait == 120   \* fallback deregistration wait
PollInterval == 30   \* time.sleep(30) in run()
ShutdownParams == 1  \* positional parameters shutdown() accepts after self
HandlerArgs == 2     \* a Python signal handler is called with (signum, frame)
NoExit == -1         \* the process has not exited
NoValue == -1        \* an attribute that has not been assigned
Unset == <<"unset">> \* os.getenv() found no such variable

(* ----------------------------- Errors --------------------------------- *)
UNKNOWN == "UNKNOWN"
METADATA == "METADATA"
CONTEXT == "CONTEXT"
AWS_ACCESS == "AWS_ACCESS"
Errors == {UNKNOWN, METADATA, CONTEXT, AWS_ACCESS}

(* ------------------- DEREGISTRATION_WAIT strings ---------------------- *)
\* "half" stands for a character such as U+00BD: str.isnumeric() accepts it,
\* int() does not.  "x" stands for any character isnumeric() rejects.
DecimalChars == {"0", "1", "2", "4", "5"}
NumericChars == DecimalChars \cup {"half"}
EnvChars == {"4", "5", "x", "half"}

DigitVal(c) ==
    CASE c = "0" -> 0 [] c = "1" -> 1 [] c = "2" -> 2
      [] c = "4" -> 4 [] c = "5" -> 5 [] OTHER -> -1

StringsUpTo(n) == UNION {[1..k -> EnvChars] : k \in 0..n}
EnvValues == {Unset} \cup StringsUpTo(MaxLen)

\* one value of each kind, for the runs that go on past the configuration:
\* unset, a decimal string, a string isnumeric() rejects, and a string
\* isnumeric() accepts and int() rejects
RunEnvValues == {Unset, <<"4", "5">>, <<"x">>, <<"half">>}

\* os.getenv('DEREGISTRATION_WAIT', '120')
getenvWait(v) == IF v = Unset THEN <<"1", "2", "0">> ELSE v

\* str.isnumeric(): non-empty and every character numeric
isnumeric(s) == Len(s) > 0 /\ \A i \in 1..Len(s) : s[i] \in NumericChars

\* int() accepts the string only when every character is a decimal digit
intOk(s) == Len(s) > 0 /\ \A i \in 1..Len(s) : s[i] \in DecimalChars

RECURSIVE int(_)
int(s) == IF Len(s) = 0 THEN 0
          ELSE 10 * int(SubSeq(s, 1, Len(s) - 1)) + DigitVal(s[Len(s)])

(* ------------------------ load balancers ------------------------------ *)
\* one entry of r['services'][0]['loadBalancers']: "none" has no
\* targetGroupArn key (a classic load balancer), the others carry one
NoTG == "none"
LBEntries == {NoTG, "tgA", "tgB"}
LBLists == UNION {[1..k -> LBEntries] : k \in 0..MaxLBs}

hasTargetGroupArn(lb) == lb # NoTG

\* index of the first entry at or after i that the for loop does not skip
RECURSIVE NextTG(_, _)
NextTG(lbs, i) ==
    IF i > Len(lbs) THEN Len(lbs) + 1
    ELSE IF hasTargetGroupArn(lbs[i]) THEN i
    ELSE NextTG(lbs, i + 1)

(* --------------------- remote health query ---------------------------- *)
HealthStates == {"initial", "healthy", "unhealthy", "draining", "unused", "unknown"}
ErrorCodes == {"ServiceUnavailable", "ValidationError", "TargetGroupNotFound"}
Malformed == "Malformed"     \* response without TargetHealthDescriptions[0]
Outcomes == HealthStates \cup ErrorCodes \cup {Malformed}

\* AWSRetry.found: the codes the decorator retries; any code of the form
\* <word>NotFound matches its pattern as well
found(code) == code \in {"ServiceUnavailable", "TargetGroupNotFound"}

\* the decorator retries while attempts remain, the last attempt raises
Retries(o, tr) == o \in ErrorCodes /\ found(o) /\ tr + 1 < TRIES

\* mutant: any state other than healthy starts the drain
IsDrainingNotHealthy(s) == s \notin {"healthy", "initial"}

IsDraining(s) == s = "draining"

(* ---------------------- shutdown and error ---------------------------- *)
ErrLine(kind) ==
    CASE kind = METADATA -> "error:metadata"
      [] kind = CONTEXT -> "error:context"
      [] kind = AWS_ACCESS -> "error:aws_access"
      [] OTHER -> "error:unknown"

\* result of a call that ends the normal flow: the log after it, the
\* exception it raised and, for SystemExit, the status passed to sys.exit
Raise(lg, exc, status) == [log |-> lg, exc |-> exc, status |-> status]

\* mutant: the exit statuses of the two branches are exchanged
shutdownSwapped(clean, arn, lg) ==
    IF ~arn THEN Raise(lg, "AttributeError", NoExit)
    ELSE IF ~clean THEN Raise(Append(lg, "unclean exit"), "SystemExit", 0)
    ELSE Raise(Append(lg, "clean exit"), "SystemExit", 1)

shutdown(clean, arn, lg) ==
    IF ~arn THEN Raise(lg, "AttributeError", NoExit)
    ELSE IF ~clean THEN Raise(Append(lg, "unclean exit"), "SystemExit", 1)
    ELSE Raise(Append(lg, "clean exit"), "SystemExit", 0)

\* mutant: a fatal error calls self.shutdown() without clean=False
errorCleanShutdown(kind, fatal, arn, lg) ==
    IF fatal THEN shutdown(TRUE, arn, Append(Append(lg, ErrLine(kind)), "fatal"))
    ELSE Raise(Append(lg, ErrLine(kind)), "", NoExit)

error(kind, fatal, arn, lg) ==
    IF fatal THEN shutdown(FALSE, arn, Append(Append(lg, ErrLine(kind)), "fatal"))
    ELSE Raise(Append(lg, ErrLine(kind)), "", NoExit)

\* mutant: a bare 'except:' catches SystemExit as well
CaughtBare(exc) == exc # ""

\* 'except Exception' catches everything but SystemExit
Caught(exc) == exc \notin {"", "SystemExit"}

\* try: <raises r> except Exception: self.error(kind, str(e), fatal=True)
TryExcept(r, kind, arn) ==
    IF Caught(r.exc) THEN error(kind, TRUE, arn, r.log) ELSE r

\* mutant: the handler calls shutdown() with no argument
sigtermHandlerNoArgs(arn, lg) == shutdown(TRUE, arn, lg)

\* signal_map = {SIGTERM: self.shutdown}: the handler is the bound method,
\* called with (signum, frame)
sigtermHandler(arn, lg) ==
    IF HandlerArgs > ShutdownParams THEN Raise(lg, "TypeError", NoExit)
    ELSE shutdown(TRUE, arn, lg)

\* exit status of the interpreter: sys.exit's argument, or 1 when an
\* exception reaches the top level of the module
ExitStatus(r) == IF r.exc = "SystemExit" THEN r.status ELSE 1

(* ----------------------------- state ---------------------------------- *)
VARIABLES
    pc,                  \* position of the process
    envWait,             \* DEREGISTRATION_WAIT in the environment of the process
    deregistration_wait, \* self.deregistration_wait (NoValue before it is set)
    task_arn,            \* TRUE once self.task_arn has been assigned
    load_balancers,      \* self.load_balancers
    idx,                 \* position of the for loop over load_balancers
    count,               \* count in Validate Access
    tries,               \* failed attempts of the check_health call in progress
    queries,             \* describe_target_health calls issued so far
    nresults,            \* health states returned so far
    firstDraining,       \* value of nresults at the first 'draining', 0 if none
    baselineDraining,    \* a baseline check returned 'draining'
    sawDraining,         \* a monitoring poll returned 'draining'
    firstPollDraining,   \* value of nresults at the first 'draining' of a poll
    pollFailed,          \* check_health raised to run()
    queriesAtDrain,      \* value of queries when drain() was entered
    lastError,           \* what the last failed attempt of the call in progress raised
    polled,              \* positions polled so far in the current monitoring cycle
    baselinePolled,      \* positions checked by Validate Access
    cycles,              \* completed time.sleep(30)
    drainSlept,          \* seconds slept in drain()
    handler,             \* the daemon context has installed the handler
    sigterm,             \* SIGTERM was delivered to the handler
    log,                 \* warning, error and exit lines logged
    exitAt,              \* position at which the process ended
    exitExc,             \* exception that ended the process
    exitCode             \* exit status of the process

vars == <<pc, envWait, deregistration_wait, task_arn, load_balancers, idx, count,
          tries, queries, nresults, firstDraining, baselineDraining, sawDraining,
          firstPollDraining, pollFailed, queriesAtDrain, lastError, polled,
          baselinePolled, cycles, drainSlept, handler, sigterm, log, exitAt,
          exitExc, exitCode>>

obsVars == <<queries, nresults, firstDraining, baselineDraining, sawDraining,
             firstPollDraining, pollFailed, queriesAtDrain>>

callVars == <<lastError, polled, baselinePolled>>

Start(envs) ==
    /\ pc = "config"
    /\ envWait \in envs
    /\ deregistration_wait = NoValue
    /\ task_arn = FALSE
    /\ load_balancers = <<>>
    /\ idx = 0
    /\ count = 0
    /\ tries = 0
    /\ queries = 0
    /\ nresults = 0
    /\ firstDraining = 0
    /\ baselineDraining = FALSE
    /\ sawDraining = FALSE
    /\ firstPollDraining = 0
    /\ pollFailed = FALSE
    /\ queriesAtDrain = 0
    /\ lastError = ""
    /\ polled = <<>>
    /\ baselinePolled = <<>>
    /\ cycles = 0
    /\ drainSlept = 0
    /\ handler = FALSE
    /\ sigterm = FALSE
    /\ log = <<>>
    /\ exitAt = ""
    /\ exitExc = ""
    /\ exitCode = NoExit

Init == Start(RunEnvValues)

\* the process ends with the raised result r
Terminate(r) ==
    /\ pc' = "exited"
    /\ exitAt' = pc
    /\ log' = r.log
    /\ exitExc' = r.exc
    /\ exitCode' = ExitStatus(r)

(* --------------------------- __init__ --------------------------------- *)
\* lines 84-87: the effective wait for the environment value v, whether the
\* warning is logged, and whether int() raises ValueError
configure(v) ==
    LET raw == getenvWait(v) IN
    IF ~isnumeric(raw) THEN [wait |-> DefaultWait, warned |-> TRUE, raised |-> FALSE]
    ELSE IF intOk(raw) THEN [wait |-> int(raw), warned |-> FALSE, raised |-> FALSE]
    ELSE [wait |-> NoValue, warned |-> FALSE, raised |-> TRUE]

Configure ==
    /\ pc = "config"
    /\ LET c == configure(envWait) IN
       IF c.raised
       THEN /\ Terminate(Raise(log, "ValueError", NoExit))
            /\ UNCHANGED deregistration_wait
       ELSE /\ deregistration_wait' = c.wait
            /\ log' = IF c.warned THEN Append(log, "warning:wait") ELSE log
            /\ pc' = "uri"
            /\ UNCHANGED <<exitAt, exitExc, exitCode>>
    /\ UNCHANGED <<envWait, task_arn, load_balancers, idx, count, tries, cycles,
                   drainSlept, handler, sigterm>>
    /\ UNCHANGED obsVars
    /\ UNCHANGED callVars

\* lines 91-92: ECS_CONTAINER_METADATA_URI_V4 set or not
CheckUri(isSet) ==
    /\ pc = "uri"
    /\ IF isSet
       THEN /\ pc' = "metadata"
            /\ UNCHANGED <<log, exitAt, exitExc, exitCode>>
       ELSE Terminate(error(METADATA, TRUE, task_arn, log))
    /\ UNCHANGED <<envWait, deregistration_wait, task_arn, load_balancers, idx, count,
                   tries, cycles, drainSlept, handler, sigterm>>
    /\ UNCHANGED obsVars
    /\ UNCHANGED callVars

\* lines 93-112: what the metadata endpoint answers
MetadataOutcomes == {"fetch_error", "not_awsvpc", "multi_ip", "no_cluster", "ok"}

GetMetadata(m) ==
    /\ pc = "metadata"
    /\ CASE m = "ok" ->
              /\ task_arn' = TRUE
              /\ pc' = "service"
              /\ UNCHANGED <<log, exitAt, exitExc, exitCode>>
         [] m = "no_cluster" ->
              \* self.task_arn is assigned, self.metadata['Cluster'] raises
              /\ task_arn' = TRUE
              /\ Terminate(TryExcept(Raise(log, "KeyError", NoExit), METADATA, TRUE))
         [] m = "fetch_error" ->
              /\ task_arn' = task_arn
              /\ Terminate(TryExcept(Raise(log, "RequestException", NoExit),
                                     METADATA, task_arn))
         [] OTHER ->
              \* not awsvpc, or not exactly one IPv4 address
              /\ task_arn' = task_arn
              /\ Terminate(TryExcept(error(CONTEXT, TRUE, task_arn, log),
                                     METADATA, task_arn))
    /\ UNCHANGED <<envWait, deregistration_wait, load_balancers, idx, count,
                   tries, cycles, drainSlept, handler, sigterm>>
    /\ UNCHANGED obsVars
    /\ UNCHANGED callVars

\* lines 122-138: what describe_tasks / describe_services answer
ServiceOutcomes == {"describe_error", "not_service", "ok"}

DescribeService(d, lbs) ==
    /\ pc = "service"
    /\ CASE d = "ok" ->
              /\ load_balancers' = lbs
              /\ pc' = "validate"
              /\ UNCHANGED <<log, exitAt, exitExc, exitCode>>
         [] d = "not_service" ->
              /\ load_balancers' = load_balancers
              /\ Terminate(TryExcept(error(CONTEXT, TRUE, task_arn, log),
                                     AWS_ACCESS, task_arn))
         [] OTHER ->
              /\ load_balancers' = load_balancers
              /\ Terminate(TryExcept(Raise(log, "ClientError", NoExit),
                                     AWS_ACCESS, task_arn))
    /\ UNCHANGED <<envWait, deregistration_wait, task_arn, idx, count,
                   tries, cycles, drainSlept, handler, sigterm>>
    /\ UNCHANGED obsVars
    /\ UNCHANGED callVars

\* lines 143-152: entering the baseline loop; with no targetGroupArn entry
\* the loop body never calls check_health and count stays 0
ValidateAccess ==
    /\ pc = "validate"
    /\ LET j == NextTG(load_balancers, 1) IN
       IF j > Len(load_balancers)
       THEN /\ Terminate(TryExcept(error(CONTEXT, TRUE, task_arn, log),
                                   AWS_ACCESS, task_arn))
            /\ UNCHANGED <<idx, count, tries>>
       ELSE /\ pc' = "baseline"
            /\ idx' = j
            /\ count' = 1
            /\ tries' = 0
            /\ UNCHANGED <<log, exitAt, exitExc, exitCode>>
    /\ UNCHANGED <<envWait, deregistration_wait, task_arn, load_balancers, cycles,
                   drainSlept, handler, sigterm>>
    /\ UNCHANGED obsVars
    /\ UNCHANGED callVars

(* ------------------------- check_health ------------------------------- *)
\* the exception an outcome raises out of check_health
RaisedBy(o) == IF o = Malformed THEN "IndexError" ELSE "ClientError"

\* mutant: the cycle ends after the first load balancer polled
AfterPollFirstOnly(s, lbs, i) ==
    IF s = "draining" THEN [pc |-> "drain", idx |-> i]
    ELSE [pc |-> "sleep", idx |-> i]

\* mutant: the cycle is finished before the drain is started
AfterPollWholeCycle(s, lbs, i) ==
    IF NextTG(lbs, i + 1) <= Len(lbs)
    THEN [pc |-> "poll", idx |-> NextTG(lbs, i + 1)]
    ELSE IF s = "draining" THEN [pc |-> "drain", idx |-> i]
    ELSE [pc |-> "sleep", idx |-> i]

\* run(), lines 204-208: what the loop does with a returned state: enter
\* drain(), go on to the next load balancer, or go back to time.sleep(30)
AfterPoll(s, lbs, i) ==
    IF IsDraining(s) THEN [pc |-> "drain", idx |-> i]
    ELSE IF NextTG(lbs, i + 1) <= Len(lbs)
         THEN [pc |-> "poll", idx |-> NextTG(lbs, i + 1)]
         ELSE [pc |-> "sleep", idx |-> i]

\* mutant: the baseline loop stops after the first target group
AfterBaselineFirstOnly(s, lbs, i) == [pc |-> "run", idx |-> i]

\* mutant: a baseline state of 'draining' starts the drain
AfterBaselineDrains(s, lbs, i) ==
    IF s = "draining" THEN [pc |-> "drain", idx |-> i]
    ELSE IF NextTG(lbs, i + 1) <= Len(lbs)
         THEN [pc |-> "baseline", idx |-> NextTG(lbs, i + 1)]
         ELSE [pc |-> "run", idx |-> i]

\* __init__, lines 145-156: a baseline state is logged, whatever it is
AfterBaseline(s, lbs, i) ==
    IF NextTG(lbs, i + 1) <= Len(lbs)
    THEN [pc |-> "baseline", idx |-> NextTG(lbs, i + 1)]
    ELSE [pc |-> "run", idx |-> i]

\* mutant: run() answers the exception with self.shutdown()
OnRaiseShutdown(phase, exc, arn, lg) ==
    IF phase = "baseline" THEN TryExcept(Raise(lg, exc, NoExit), AWS_ACCESS, arn)
    ELSE shutdown(TRUE, arn, lg)

\* mutant: run() reports the exception through error() as __init__ does
OnRaiseReported(phase, exc, arn, lg) ==
    TryExcept(Raise(lg, exc, NoExit), AWS_ACCESS, arn)

\* what an exception raised by check_health leads to: in __init__ the
\* except clause of Validate Access, in run() nothing catches it
OnRaise(phase, exc, arn, lg) ==
    IF phase = "baseline" THEN TryExcept(Raise(lg, exc, NoExit), AWS_ACCESS, arn)
    ELSE Raise(lg, exc, NoExit)

\* one describe_target_health call of the check_health in progress
Attempt(o) ==
    /\ pc \in {"baseline", "poll"}
    /\ queries < MaxQueries
    /\ queries' = queries + 1
    /\ IF o \in HealthStates
       THEN LET a == IF pc = "baseline"
                     THEN AfterBaseline(o, load_balancers, idx)
                     ELSE AfterPoll(o, load_balancers, idx) IN
            /\ pc' = a.pc
            /\ idx' = a.idx
            /\ tries' = 0
            /\ count' = IF pc = "baseline" /\ a.pc = "baseline" THEN count + 1 ELSE count
            /\ nresults' = nresults + 1
            /\ firstDraining' = IF firstDraining = 0 /\ o = "draining"
                                THEN nresults + 1 ELSE firstDraining
            /\ baselineDraining' = (baselineDraining \/ (pc = "baseline" /\ o = "draining"))
            /\ sawDraining' = (sawDraining \/ (pc = "poll" /\ o = "draining"))
            /\ firstPollDraining' = IF firstPollDraining = 0 /\ pc = "poll" /\ o = "draining"
                                    THEN nresults + 1 ELSE firstPollDraining
            /\ queriesAtDrain' = IF a.pc = "drain" THEN queries + 1 ELSE queriesAtDrain
            /\ lastError' = ""
            /\ polled' = IF pc = "poll" THEN Append(polled, idx) ELSE polled
            /\ baselinePolled' = IF pc = "baseline" THEN Append(baselinePolled, idx)
                                 ELSE baselinePolled
            /\ UNCHANGED <<pollFailed, log, exitAt, exitExc, exitCode>>
       ELSE IF Retries(o, tries)
       THEN /\ tries' = tries + 1
            /\ lastError' = o
            /\ UNCHANGED <<polled, baselinePolled>>
            /\ UNCHANGED <<pc, idx, count, nresults, firstDraining, baselineDraining,
                           sawDraining, firstPollDraining, queriesAtDrain, pollFailed, log, exitAt,
                           exitExc, exitCode>>
       ELSE /\ Terminate(OnRaise(pc, RaisedBy(o), task_arn, log))
            /\ pollFailed' = (pollFailed \/ pc = "poll")
            /\ lastError' = o
            /\ UNCHANGED <<polled, baselinePolled>>
            /\ UNCHANGED <<idx, count, tries, nresults, firstDraining,
                           baselineDraining, sawDraining, firstPollDraining,
                           queriesAtDrain>>
    /\ UNCHANGED <<envWait, deregistration_wait, task_arn, load_balancers, cycles,
                   drainSlept, handler, sigterm>>

(* ------------------------------ run ----------------------------------- *)
\* lines 194-196: entering the daemon context installs the signal map
Run ==
    /\ pc = "run"
    /\ pc' = "sleep"
    /\ handler' = TRUE
    /\ UNCHANGED <<envWait, deregistration_wait, task_arn, load_balancers, idx, count,
                   tries, cycles, drainSlept, sigterm, log, exitAt, exitExc, exitCode>>
    /\ UNCHANGED obsVars
    /\ UNCHANGED callVars

\* line 199-200: time.sleep(30), then the for loop starts over
Sleep30 ==
    /\ pc = "sleep"
    /\ cycles < MaxCycles
    /\ cycles' = cycles + 1
    /\ LET j == NextTG(load_balancers, 1) IN
       IF j > Len(load_balancers)
       THEN UNCHANGED <<pc, idx>>
       ELSE pc' = "poll" /\ idx' = j
    /\ tries' = 0
    /\ polled' = <<>>
    /\ UNCHANGED <<envWait, deregistration_wait, task_arn, load_balancers, count,
                   drainSlept, handler, sigterm, log, exitAt, exitExc, exitCode>>
    /\ UNCHANGED obsVars
    /\ UNCHANGED <<lastError, baselinePolled>>

\* drain(), lines 215-217: the whole wait, then shutdown()
Drain ==
    /\ pc = "drain"
    /\ drainSlept' = deregistration_wait
    /\ Terminate(shutdown(TRUE, task_arn, log))
    /\ UNCHANGED <<envWait, deregistration_wait, task_arn, load_balancers, idx, count,
                   tries, cycles, handler, sigterm>>
    /\ UNCHANGED obsVars
    /\ UNCHANGED callVars

\* SIGTERM while the handler is installed: in time.sleep(30), in a remote
\* call, or in the wait of drain()
Sigterm ==
    /\ handler
    /\ pc \in {"sleep", "poll", "drain"}
    /\ sigterm' = TRUE
    /\ Terminate(sigtermHandler(task_arn, log))
    /\ UNCHANGED <<envWait, deregistration_wait, task_arn, load_balancers, idx, count,
                   tries, cycles, drainSlept, handler>>
    /\ UNCHANGED obsVars
    /\ UNCHANGED callVars

Next ==
    \/ Configure
    \/ \E b \in BOOLEAN : CheckUri(b)
    \/ \E m \in MetadataOutcomes : GetMetadata(m)
    \/ \E d \in ServiceOutcomes, lbs \in LBLists : DescribeService(d, lbs)
    \/ ValidateAccess
    \/ \E o \in Outcomes : Attempt(o)
    \/ Run
    \/ Sleep30
    \/ Drain
    \/ Sigterm

Spec == Init /\ [][Next]_vars

\* the configuration step alone, over every DEREGISTRATION_WAIT drawn
ConfigInit == Start(EnvValues)
ConfigNext == Configure
ConfigSpec == ConfigInit /\ [][ConfigNext]_vars

\* time.sleep(deregistration_wait) returns: a drain that has started and is
\* not interrupted runs to its end
FairSpec == Spec /\ WF_vars(Drain)

TypeOK ==
    /\ pc \in {"config", "uri", "metadata", "service", "validate", "baseline",
               "run", "sleep", "poll", "drain", "exited"}
    /\ exitCode \in {NoExit, 0, 1}
    /\ tries \in 0..(TRIES - 1)
    /\ queries \in 0..MaxQueries

(* ======================= properties =================================== *)
Range(f) == {f[i] : i \in DOMAIN f}
NumTG(lbs) == Cardinality({i \in DOMAIN lbs : hasTargetGroupArn(lbs[i])})
Monitoring == pc \in {"sleep", "poll"}
Drained == queriesAtDrain > 0      \* drain() has been entered
ErrorLines == {"error:metadata", "error:context", "error:aws_access", "error:unknown"}
Elapsed == cycles * PollInterval + drainSlept   \* seconds slept so far

\* C1: the monitoring poll that returns 'draining' moves the coordinator to
\* Draining in that same step, whatever the position of the binding in the
\* cycle and whatever bindings remain unpolled; from that observation on no
\* further health query is issued.
C1_DrainingEntersDrainAtOnce ==
    /\ [][(pc = "poll" /\ firstPollDraining = 0 /\ firstPollDraining' > 0)
            => (pc' = "drain" /\ idx' = idx /\ queriesAtDrain' = queries')]_vars
    /\ [](firstPollDraining > 0 => (pc \in {"drain", "exited"} /\ queries = queriesAtDrain))

\* C1 witness: Draining entered on the first of two bindings, the second
\* binding of that cycle left unpolled
C1_Witness ==
    /\ pc = "drain"
    /\ NumTG(load_balancers) = 2
    /\ idx = 1
    /\ firstPollDraining > 0

\* C2 as stated: once Draining is entered the process always ends with the
\* full deregistration wait slept and exit code 0.
C2_Original_DrainAlwaysCompletes ==
    (Drained /\ pc = "exited") =>
        (exitCode = 0 /\ drainSlept = deregistration_wait)

\* C2 amended: once Draining is entered, and unless SIGTERM arrives during the
\* wait, drain() sleeps the configured deregistration wait once, issues no
\* health query, and the process ends through shutdown() with exit code 0.
C2_DrainCompletesUnlessSignalled ==
    /\ [](pc = "drain" => (drainSlept = 0 /\ queries = queriesAtDrain /\ exitCode = NoExit))
    /\ []((Drained /\ pc = "exited" /\ ~sigterm) =>
             (/\ exitCode = 0
              /\ exitExc = "SystemExit"
              /\ exitAt = "drain"
              /\ drainSlept = deregistration_wait
              /\ queries = queriesAtDrain
              /\ log[Len(log)] = "clean exit"))
    /\ (pc = "drain" ~> pc = "exited")

\* C2 witness: a drain with a configured wait of 45 that ran to its end
C2_Witness ==
    /\ pc = "exited"
    /\ Drained
    /\ ~sigterm
    /\ deregistration_wait = 45
    /\ drainSlept = 45
    /\ exitCode = 0

\* C3 as stated: while every poll succeeds and none reports 'draining' the
\* coordinator is in Monitoring and the process has not exited.
C3_Original_StaysInMonitoring ==
    (handler /\ firstDraining = 0 /\ ~pollFailed) =>
        (Monitoring /\ ~Drained /\ exitCode = NoExit)

\* C3 amended: while every poll succeeds, none reports 'draining' and no
\* SIGTERM is delivered, the coordinator is in Monitoring: drain() is not
\* entered, shutdown() is not called and the process has not exited.
C3_StaysInMonitoringUnlessSignalled ==
    (handler /\ firstDraining = 0 /\ ~pollFailed /\ ~sigterm) =>
        (Monitoring /\ ~Drained /\ drainSlept = 0 /\ exitCode = NoExit
           /\ "clean exit" \notin Range(log) /\ "unclean exit" \notin Range(log))

\* C3 witness: Monitoring after several cycles of polls, none of them draining
C3_Witness ==
    /\ pc = "sleep"
    /\ cycles >= 2
    /\ nresults >= 3
    /\ queries > nresults
    /\ firstDraining = 0
    /\ ~sigterm
    /\ exitCode = NoExit

\* C4: a SIGTERM delivered to the installed handler runs shutdown with
\* clean = true: the process ends through sys.exit with exit code 0.
C4_SigtermExitsClean ==
    sigterm => (pc = "exited" /\ exitCode = 0 /\ exitExc = "SystemExit")

\* C5: a check_health that raises to run(), its retry budget exhausted,
\* ends the process with exit code 1: never exit code 0, never another cycle.
C5_PollFailureExitsOne ==
    /\ (pollFailed => (pc = "exited" /\ exitCode = 1 /\ exitAt = "poll"))
    /\ ((pc = "poll" /\ tries > 0) => exitCode = NoExit)

\* C5 witness: the tenth attempt of a poll failed
C5_Witness ==
    /\ pollFailed
    /\ tries = TRIES - 1
    /\ pc = "exited"
    /\ handler

\* C6 as stated: after check_health raised to run() the coordinator is still
\* in Monitoring and the error has been logged.
C6_Original_PollFailureContinues ==
    pollFailed => (Monitoring /\ exitCode = NoExit /\ "error:aws_access" \in Range(log))

\* C6 amended: when check_health raises to run() nothing catches the error:
\* it is not reported through error(), the remaining bindings of the cycle are
\* not checked, no further cycle starts and the process ends with exit code 1.
C6_PollFailureEndsProcess ==
    pollFailed =>
        /\ pc = "exited"
        /\ exitExc \in {"ClientError", "IndexError"}
        /\ exitCode = 1
        /\ Range(log) \cap (ErrorLines \cup {"fatal", "unclean exit"}) = {}

\* C6 witness: the poll of the first of two bindings failed, the second was
\* never checked in that cycle
C6_Witness ==
    /\ pollFailed
    /\ NumTG(load_balancers) = 2
    /\ idx = 1
    /\ cycles = 1
    /\ pc = "exited"

\* C7: when no load balancer entry carries a targetGroupArn, Validate Access
\* reports one context error, the process exits with code 1 through
\* shutdown(clean=False) and no health query was issued.
C7_NoBindingsIsFatalContextError ==
    exitAt = "validate" =>
        /\ NumTG(load_balancers) = 0
        /\ pc = "exited"
        /\ exitCode = 1
        /\ exitExc = "SystemExit"
        /\ queries = 0
        /\ ~handler
        /\ Len(log) >= 3
        /\ SubSeq(log, Len(log) - 2, Len(log)) = <<"error:context", "fatal", "unclean exit">>
        /\ Range(log) \cap ErrorLines = {"error:context"}

\* C7 witness: two load balancers attached, neither with a target group
C7_Witness ==
    /\ exitAt = "validate"
    /\ Len(load_balancers) = 2
    /\ exitCode = 1

\* C8: with at least one binding, run() is reached exactly when the baseline
\* check of every binding returned a state; a baseline check that raises ends
\* the process with exit code 1 before Monitoring.
C8_InitSucceedsIffBaselineSucceeds ==
    /\ (pc = "baseline" => (nresults < NumTG(load_balancers) /\ count = nresults + 1))
    /\ (pc = "run" => (NumTG(load_balancers) >= 1 /\ nresults = NumTG(load_balancers)
                         /\ count = nresults))
    /\ (exitAt = "baseline" =>
          (exitCode = 1 /\ ~handler /\ cycles = 0 /\ nresults < NumTG(load_balancers)
             /\ "error:aws_access" \in Range(log)))

\* C8 witness: initialization completed with two bindings, one baseline check
\* having succeeded only after a retry
C8_Witness ==
    /\ pc = "run"
    /\ NumTG(load_balancers) = 2
    /\ queries > nresults

\* C9 as stated: with one binding and every query answered, the number of
\* queries issued is the position of the first 'draining' among the results,
\* and the process then ends with the wait slept and exit code 0.
C9_Original_QueriesEqualFirstDraining ==
    (NumTG(load_balancers) = 1 /\ queries = nresults /\ firstDraining > 0) =>
        /\ queries = firstDraining
        /\ (Drained /\ pc = "exited" => (exitCode = 0 /\ drainSlept = deregistration_wait))

\* C9 amended: with one binding and every query answered, the first result
\* is the baseline check and starts no drain; drain() is entered exactly at
\* the first 'draining' at position 2 or later, the number of queries issued
\* is that position (3 for healthy, healthy, draining; at least 2 when the
\* very first result is 'draining'), and unless SIGTERM arrives during the
\* wait the process sleeps the deregistration wait and exits with code 0.
C9_QueriesEqualFirstPollDraining ==
    (NumTG(load_balancers) = 1 /\ queries = nresults) =>
        /\ (Drained <=> firstPollDraining > 0)
        /\ (firstPollDraining > 0 => (queries = firstPollDraining /\ queries >= 2))
        /\ (firstDraining >= 2 => firstPollDraining = firstDraining)
        /\ (firstDraining = 1 /\ queries = 1 => pc # "drain" /\ ~Drained /\ drainSlept = 0)
        /\ (Drained /\ pc = "exited" /\ ~sigterm =>
               (exitCode = 0 /\ drainSlept = deregistration_wait))

\* C9 witness: healthy, healthy, draining with a wait of 45: three queries,
\* the wait, exit code 0
C9_Witness ==
    /\ NumTG(load_balancers) = 1
    /\ queries = 3
    /\ nresults = 3
    /\ firstDraining = 3
    /\ pc = "exited"
    /\ drainSlept = 45
    /\ exitCode = 0

\* C10: the effective wait is 120 when DEREGISTRATION_WAIT is unset, 120 with
\* a warning when it is not numeric, the integer when it is a numeric string;
\* for every value it is a non-negative integer and the step is never fatal.
C10_ConfigurationNeverFatal ==
    pc # "config" =>
        /\ exitAt # "config"
        /\ deregistration_wait >= 0
        /\ (envWait = Unset => deregistration_wait = DefaultWait)
        /\ (envWait = <<"4", "5">> => deregistration_wait = 45)
        /\ (envWait # Unset /\ intOk(envWait) =>
               deregistration_wait = int(envWait) /\ log = <<>>)
        /\ (envWait # Unset /\ ~intOk(envWait) =>
               deregistration_wait = DefaultWait /\ log = <<"warning:wait">>)

BootstrapSteps == {"uri", "metadata", "service", "validate", "baseline"}
NumErrorLines == Cardinality({i \in DOMAIN log : log[i] \in ErrorLines})
ShutdownCalled == "fatal" \in Range(log) \/ exitAt = "drain" \/ sigterm
Transient(o) == o = "ServiceUnavailable"

\* C11: a process that ends in one of the steps of __init__ (metadata URI,
\* metadata, service lookup, Validate Access, baseline check) ends with exit
\* code 1, and the daemon context and the monitoring loop were never entered.
C11_BootstrapErrorsAreFatal ==
    /\ (exitAt \in BootstrapSteps =>
          (pc = "exited" /\ exitCode = 1 /\ ~handler /\ cycles = 0 /\ polled = <<>>))
    /\ (handler => (task_arn /\ NumTG(load_balancers) >= 1
                      /\ Len(baselinePolled) = NumTG(load_balancers)))

\* C11 witness: the task runs outside awsvpc mode (or with several addresses)
\* and the process has ended in the metadata validation
C11_Witness ==
    /\ exitAt = "metadata"
    /\ "error:context" \in Range(log)
    /\ exitCode = 1

\* C12: whenever shutdown has been called (by a fatal error, by drain() or as
\* the signal handler) the process has ended through sys.exit, with the exit
\* line logged, status 0 when clean and 1 when not.
C12_ShutdownAlwaysExits ==
    (pc = "exited" /\ ShutdownCalled) =>
        /\ exitExc = "SystemExit"
        /\ log[Len(log)] \in {"clean exit", "unclean exit"}
        /\ (log[Len(log)] = "clean exit" <=> exitCode = 0)
        /\ (log[Len(log)] = "unclean exit" <=> exitCode = 1)

\* C13: a process that ended with exit code 1 in a step of __init__ or in a
\* monitoring poll has reported the error through error() before it ended.
C13_UncleanExitIsLogged ==
    (exitCode = 1 /\ exitAt \in BootstrapSteps \cup {"poll"} /\ ~sigterm) =>
        (NumErrorLines >= 1 /\ "fatal" \in Range(log))

\* C14: one check_health call issues at most 10 queries; only a transient
\* failure is retried, and a failure that is not transient ends the call
\* after a single query.
C14_OnlyTransientFailuresRetried ==
    /\ tries <= TRIES - 1
    /\ (tries > 0 => Transient(lastError))
    /\ (lastError # "" /\ ~Transient(lastError) => tries = 0)

\* positions of the load balancers that carry a targetGroupArn, in order
TGSeq(lbs) ==
    SelectSeq([i \in 1..Len(lbs) |-> i], LAMBDA i : hasTargetGroupArn(lbs[i]))

\* C15: a monitoring cycle starts with time.sleep(30) and then polls the
\* load balancers that carry a targetGroupArn, each once, in list order; a
\* cycle that neither saw 'draining' nor failed polled exactly the positions
\* the baseline checked, and so does every cycle.
C15_EveryCyclePollsEveryBindingInOrder ==
    /\ (pc = "run" => baselinePolled = TGSeq(load_balancers))
    /\ (handler => baselinePolled = TGSeq(load_balancers))
    /\ (pc = "poll" =>
          /\ cycles >= 1
          /\ Len(polled) < Len(TGSeq(load_balancers))
          /\ Append(polled, idx) = SubSeq(TGSeq(load_balancers), 1, Len(polled) + 1))
    /\ (pc = "sleep" /\ cycles >= 1 =>
          /\ polled = TGSeq(load_balancers)
          /\ polled = baselinePolled
          /\ nresults = (cycles + 1) * NumTG(load_balancers))
    /\ (pc = "sleep" /\ cycles = 0 => polled = <<>>)

\* C15 witness: two cycles completed over two bindings, polled in list order
C15_Witness ==
    /\ pc = "sleep"
    /\ cycles = 2
    /\ load_balancers = <<"tgB", "tgA">>
    /\ polled = <<1, 2>>
    /\ firstPollDraining = 0

\* C16: a baseline check that returns 'draining' starts no drain; drain() is
\* entered only after a monitoring poll returned 'draining', so at least one
\* time.sleep(30) has completed before any drain wait.
C16_BaselineDrainingStartsNoDrain ==
    /\ (baselineDraining /\ ~handler => (pc # "drain" /\ ~Drained /\ drainSlept = 0))
    /\ (baselineDraining /\ pc = "run" => nresults = NumTG(load_balancers))
    /\ ((pc = "drain" \/ Drained \/ drainSlept > 0) =>
          (handler /\ cycles >= 1 /\ firstPollDraining > NumTG(load_balancers)))

\* C16 witness: every baseline check returned 'draining', initialization
\* completed and the coordinator is in Monitoring after a cycle of polls
C16_Witness ==
    /\ baselineDraining
    /\ firstDraining = 1
    /\ pc = "sleep"
    /\ cycles >= 1
    /\ nresults >= 2
    /\ ~Drained

\* C17: the process ends with exit code 0 only out of drain(), after a
\* monitoring poll returned 'draining' and the whole deregistration wait was
\* slept; no error of __init__, no failed poll and no SIGTERM ends with 0.
C17_ExitZeroOnlyAfterDrain ==
    /\ (exitCode = 0 =>
          /\ exitAt = "drain"
          /\ firstPollDraining > 0
          /\ drainSlept = deregistration_wait
          /\ ~sigterm
          /\ ~pollFailed)
    /\ (pc = "exited" /\ (sigterm \/ pollFailed \/ exitAt \in BootstrapSteps \cup {"config"})
          => exitCode = 1)

\* C17 witness: exit code 0, reached in a later cycle with the default wait
C17_Witness ==
    /\ exitCode = 0
    /\ cycles >= 2
    /\ deregistration_wait = DefaultWait
    /\ drainSlept = DefaultWait
    /\ firstPollDraining > 0

\* C18: a process that ended in a step of __init__ has reported its error
\* through error() exactly once; a context error found in the metadata
\* validation is not reported as a metadata or AWS-access error as well.
C18_BootstrapErrorReportedOnce ==
    exitAt \in BootstrapSteps =>
        /\ NumErrorLines = 1
        /\ ("error:context" \in Range(log) =>
              Range(log) \cap {"error:metadata", "error:aws_access"} = {})

====
